---- MODULE Spec2Model ----
(***************************************************************************)
(* Model of the UVM toolchain: the instruction codec (pack_instruction /   *)
(* decode_instruction), the assembler (full_asm / asm) and the interpreter *)
(* loop (run_program) over a UVMMemory.                                    *)
(*                                                                         *)
(* Python integers are unbounded while TLC's are 32-bit, so the 40-bit     *)
(* instruction word is kept as a vector of bits (a function 0..39 -> 0..1) *)
(* and the bit operations of the source (|, <<, >>, &) act on that vector; *)
(* the integers of the machine are kept as two limbs.                      *)
(* Strings are sequences of one-character strings.                         *)
(***************************************************************************)
EXTENDS Integers, Sequences, FiniteSets, TLC

VARIABLES
    \* --- run_program(bytecode, memory) ---
    bytecode,       \* the bytes handed to run_program
    instructions,   \* run_program's local list of 5-byte chunks
    log_messages,   \* run_program's local list of log entries
    data,           \* memory.data
    stack,          \* memory.stack
    ip,             \* memory.ip
    acc,            \* memory.acc
    pc,             \* position of the running function
    ret,            \* value returned by the function (None until it returns)
    exc,            \* exception that left the function (None if none)
    \* --- full_asm(text) ---
    text,           \* the source text
    lines,          \* text.strip().splitlines()
    lineno,         \* number of lines already consumed by the for loop
    IR,             \* full_asm's local IR list
    \* --- pack_instruction(a, b) / decode_instruction ---
    a,              \* opcode argument of pack_instruction
    b,              \* operand argument of pack_instruction
    packed,         \* outcome of pack_instruction(a, b)
    decoded         \* outcome of decode_instruction on the packed bytes

vars == <<bytecode, instructions, log_messages, data, stack, ip, acc, pc, ret,
          exc, text, lines, lineno, IR, a, b, packed, decoded>>

runVars == <<bytecode, instructions, log_messages, data, stack, ip, acc>>
asmVars == <<text, lines, lineno, IR>>
codecVars == <<a, b, packed, decoded>>

\* Python's None
None == [none |-> TRUE]

(***************************************************************************)
(* Bounds of the model.                                                    *)
(***************************************************************************)
\* number of cells of the data memory (UVMMemory(data_size))
DataSize == 2
\* longest generated program, in instructions
MaxInstr == 3
\* longest generated source text, in lines
MaxLines == 2

(***************************************************************************)
(* Program constants.                                                      *)
(***************************************************************************)
OP_LOAD_CONST == 14
OP_READ == 11
OP_WRITE == 94
OP_LESS == 69
\* size of one instruction in bytes
InstrSize == 5
\* width of field A in bits: 1 << 7, & 0x7F, >> 7
ABits == 7
\* width of field B in bits: 1 << 26
BBits == 26

OPCODE_NAMES ==
    (14 :> "load_const") @@ (11 :> "read_value") @@
    (94 :> "write_value") @@ (69 :> "less")

(***************************************************************************)
(* Integers as bit vectors.                                                *)
(***************************************************************************)
WordBits == InstrSize * 8

\* bit i of the non-negative integer n (n < 2^31, so bits above 30 are 0)
Bit(n, i) == IF i > 30 THEN 0 ELSE (n \div (2 ^ i)) % 2

\* the bits of n as a word
IntBits(n) == [i \in 0 .. WordBits - 1 |-> Bit(n, i)]

RECURSIVE BitsInt(_, _, _)
\* the integer made of the n bits of v starting at bit lo
BitsInt(v, lo, n) ==
    IF n = 0 THEN 0
    ELSE BitsInt(v, lo, n - 1) + (IF v[lo + n - 1] = 1 THEN 2 ^ (n - 1) ELSE 0)

\* x | y
BitOr(x, y) == [i \in 0 .. WordBits - 1 |-> IF x[i] = 1 \/ y[i] = 1 THEN 1 ELSE 0]

\* x << k
ShiftLeft(x, k) == [i \in 0 .. WordBits - 1 |-> IF i < k THEN 0 ELSE x[i - k]]

\* the bytes in the opposite order: value.to_bytes(InstrSize, "big")
to_bytes_big(v) == [k \in 1 .. InstrSize |-> BitsInt(v, 8 * (InstrSize - k), 8)]

\* value.to_bytes(InstrSize, "little")
to_bytes_little(v) == [k \in 1 .. InstrSize |-> BitsInt(v, 8 * (k - 1), 8)]

\* int.from_bytes(bytes, byteorder="little")
from_bytes_little(bytes) ==
    [i \in 0 .. WordBits - 1 |-> Bit(bytes[(i \div 8) + 1], i % 8)]

(***************************************************************************)
(* Integers of the machine.  A decoded operand has 33 bits, more than a    *)
(* TLC integer, so the integers the interpreter holds (operands, the       *)
(* accumulator, the cells) are pairs <<n div 2^16, n mod 2^16>>.           *)
(***************************************************************************)
Limb == 2 ^ 16

\* the machine integer n
Wide(n) == << n \div Limb, n % Limb >>

\* the TLC integer of a machine integer that fits one
Narrow(x) == x[1] * Limb + x[2]

\* x < y
WideLess(x, y) == x[1] < y[1] \/ (x[1] = y[1] /\ x[2] < y[2])

\* x <= y
WideLeq(x, y) == x = y \/ WideLess(x, y)

\* the integer made of the n bits of v starting at bit lo, n > 16
BitsWide(v, lo, n) == << BitsInt(v, lo + 16, n - 16), BitsInt(v, lo, 16) >>

(***************************************************************************)
(* Outcomes of a call: a returned value or a raised exception.             *)
(***************************************************************************)
Raise(type, what) == [ok |-> FALSE, type |-> type, what |-> what]

(***************************************************************************)
(* uvm_asm.pack_instruction                                                *)
(***************************************************************************)
\* the check of field A
ARangeError(opcode) == opcode < 0 \/ opcode >= 2 ^ ABits

\* field B checked for its sign only: if b < 0
BRangeError_sign_only(operand) == operand < 0

\* the upper limit of field B taken as inclusive
BRangeError_inclusive(operand) == operand < 0 \/ operand > 2 ^ BBits

\* the check of field B
BRangeError(operand) == operand < 0 \/ operand >= 2 ^ BBits

\* value = a | (b << 7)
PackValue(opcode, operand) ==
    BitOr(IntBits(opcode), ShiftLeft(IntBits(operand), ABits))

pack_instruction(opcode, operand) ==
    IF ARangeError(opcode) THEN Raise("ValueError", "field A")
    ELSE IF BRangeError(operand) THEN Raise("ValueError", "field B")
    ELSE [ok |-> TRUE, bytes |-> to_bytes_little(PackValue(opcode, operand))]

(***************************************************************************)
(* interpreter.decode_instruction                                          *)
(***************************************************************************)
\* a = value & 0x7F
FieldA(value) == BitsInt(value, 0, ABits)

\* the operand taken from the second byte on: value >> 8
FieldB_shift8(value) == BitsWide(value, 8, WordBits - 8)

\* b = value >> 7
FieldB(value) == BitsWide(value, ABits, WordBits - ABits)

decode_instruction(instruction_bytes) ==
    IF Len(instruction_bytes) # InstrSize
    THEN Raise("ValueError", "length")
    ELSE LET value == from_bytes_little(instruction_bytes)
             fa == FieldA(value)
         IN  IF fa \notin DOMAIN OPCODE_NAMES
             THEN Raise("ValueError", "opcode")
             ELSE [ok |-> TRUE, cmd |-> OPCODE_NAMES[fa], operand |-> FieldB(value)]

(***************************************************************************)
(* uvm_memory.UVMMemory                                                    *)
(***************************************************************************)
\* self.data = [0] * data_size
FreshData == [i \in 0 .. DataSize - 1 |-> Wide(0)]

\* len(self.data)
DataLen(d) == Cardinality(DOMAIN d)

read_data(d, address) ==
    IF WideLeq(Wide(0), address) /\ WideLess(address, Wide(DataLen(d)))
    THEN [ok |-> TRUE, value |-> d[Narrow(address)]]
    ELSE Raise("IndexError", "read")

\* the address taken modulo the size: self.data[address % len(self.data)] = value
write_data_wrap(d, address, value) ==
    [ok |-> TRUE, data |-> [d EXCEPT ![Narrow(address) % DataLen(d)] = value]]

write_data(d, address, value) ==
    IF WideLeq(Wide(0), address) /\ WideLess(address, Wide(DataLen(d)))
    THEN [ok |-> TRUE, data |-> [d EXCEPT ![Narrow(address)] = value]]
    ELSE Raise("IndexError", "write")

(***************************************************************************)
(* interpreter.run_program                                                 *)
(***************************************************************************)
Min(x, y) == IF x < y THEN x ELSE y

\* only the whole 5-byte windows: range(0, len(bytecode) - 4, 5)
Chunks_whole(bytes) ==
    [k \in 1 .. (Len(bytes) \div InstrSize) |->
        SubSeq(bytes, InstrSize * (k - 1) + 1, InstrSize * k)]

\* instructions = [bytecode[i:i + 5] for i in range(0, len(bytecode), 5)]
Chunks(bytes) ==
    [k \in 1 .. ((Len(bytes) + InstrSize - 1) \div InstrSize) |->
        SubSeq(bytes, InstrSize * (k - 1) + 1, Min(InstrSize * k, Len(bytes)))]

\* the comparison with its sides swapped: 1 if rhs < lhs else 0
LessResult_swapped(lhs, rhs) == IF WideLess(rhs, lhs) THEN Wide(1) ELSE Wide(0)

\* result = 1 if lhs < rhs else 0
LessResult(lhs, rhs) == IF WideLess(lhs, rhs) THEN Wide(1) ELSE Wide(0)

\* the program counter advanced in bytes: current_ip + 5
NewIp_bytes(current_ip) == current_ip + InstrSize

\* new_ip = current_ip + 1
NewIp(current_ip) == current_ip + 1

\* read_value that consumes the cell: memory.acc = memory.read_data(b),
\* then memory.write_data(b, 0)
Dispatch_read_clears(cmd, operand, d, accu) ==
    CASE cmd = "load_const" -> [ok |-> TRUE, halt |-> FALSE, data |-> d, acc |-> operand]
      [] cmd = "read_value" ->
            LET r == read_data(d, operand)
            IN  IF r.ok
                THEN [ok |-> TRUE, halt |-> FALSE,
                      data |-> write_data(d, operand, Wide(0)).data, acc |-> r.value]
                ELSE r
      [] cmd = "write_value" ->
            LET w == write_data(d, operand, accu)
            IN  IF w.ok THEN [ok |-> TRUE, halt |-> FALSE, data |-> w.data, acc |-> accu]
                ELSE w
      [] cmd = "less" ->
            LET r == read_data(d, operand)
            IN  IF ~r.ok THEN r
                ELSE LET w == write_data(d, operand, LessResult(r.value, accu))
                     IN  IF w.ok
                         THEN [ok |-> TRUE, halt |-> FALSE, data |-> w.data, acc |-> accu]
                         ELSE w
      [] OTHER -> [ok |-> TRUE, halt |-> TRUE, data |-> d, acc |-> accu]

\* the if/elif chain on cmd: the memory after the instruction, or the
\* exception it raises
Dispatch(cmd, operand, d, accu) ==
    CASE cmd = "load_const" -> [ok |-> TRUE, halt |-> FALSE, data |-> d, acc |-> operand]
      [] cmd = "read_value" ->
            LET r == read_data(d, operand)
            IN  IF r.ok THEN [ok |-> TRUE, halt |-> FALSE, data |-> d, acc |-> r.value]
                ELSE r
      [] cmd = "write_value" ->
            LET w == write_data(d, operand, accu)
            IN  IF w.ok THEN [ok |-> TRUE, halt |-> FALSE, data |-> w.data, acc |-> accu]
                ELSE w
      [] cmd = "less" ->
            LET r == read_data(d, operand)
            IN  IF ~r.ok THEN r
                ELSE LET w == write_data(d, operand, LessResult(r.value, accu))
                     IN  IF w.ok
                         THEN [ok |-> TRUE, halt |-> FALSE, data |-> w.data, acc |-> accu]
                         ELSE w
      [] OTHER -> [ok |-> TRUE, halt |-> TRUE, data |-> d, acc |-> accu]

\* the instruction the loop is about to fetch
Fetching == pc = "loop" /\ ip < Len(instructions)

\* decode_instruction(instructions[memory.ip])
Decoded == decode_instruction(instructions[ip + 1])

\* the ACC column filled from the operand: f"... {b} (ACC={b})"
TraceEntry_acc_from_operand(dec) ==
    [kind |-> "trace", ip |-> ip, cmd |-> dec.cmd, operand |-> dec.operand, acc |-> dec.operand]

TraceEntry(dec) ==
    [kind |-> "trace", ip |-> ip, cmd |-> dec.cmd, operand |-> dec.operand, acc |-> acc]

ErrorEntry(what) == [kind |-> "error", ip |-> ip, what |-> what]

SummaryEntries ==
    << [kind |-> "end", ip |-> ip],
       [kind |-> "final_acc", acc |-> acc],
       [kind |-> "memory", data |-> data] >>

\* the 5-byte words programs are made of: every opcode with an address inside
\* and one outside the memory, and a word with an unassigned opcode
WordFields ==
    { <<OP_LOAD_CONST, 3>>, <<OP_LOAD_CONST, 5>>,
      <<OP_READ, 0>>, <<OP_READ, DataSize>>,
      <<OP_WRITE, 0>>, <<OP_WRITE, DataSize>>,
      <<OP_LESS, 0>>, <<OP_LESS, DataSize>>,
      <<1, 0>> }

Words == { pack_instruction(w[1], w[2]).bytes : w \in WordFields }

\* a trailing fragment shorter than one instruction
Fragments == { <<>>, <<142, 190>> }

RECURSIVE Flatten(_)
Flatten(ss) == IF ss = <<>> THEN <<>> ELSE Head(ss) \o Flatten(Tail(ss))

\* load_const 5; write_value 0; load_const 3; less 0
ExampleProgram ==
    Flatten(<< pack_instruction(OP_LOAD_CONST, 5).bytes,
               pack_instruction(OP_WRITE, 0).bytes,
               pack_instruction(OP_LOAD_CONST, 3).bytes,
               pack_instruction(OP_LESS, 0).bytes >>)

Programs ==
    { Flatten(p) : p \in UNION { [1 .. n -> Words] : n \in 0 .. MaxInstr } }

Bytecodes == { p \o f : p \in Programs, f \in Fragments } \cup { ExampleProgram }

IdleAsm == text = <<>> /\ lines = <<>> /\ lineno = 0 /\ IR = <<>>

IdleCodec == a = 0 /\ b = 0 /\ packed = None /\ decoded = None

IdleRun ==
    /\ bytecode = <<>>
    /\ instructions = <<>>
    /\ log_messages = <<>>
    /\ data = FreshData
    /\ stack = <<>>
    /\ ip = 0
    /\ acc = Wide(0)

\* memory = UVMMemory(); run_program(bytecode, memory) is entered
Init ==
    /\ bytecode \in Bytecodes
    /\ instructions = <<>>
    /\ log_messages = <<>>
    /\ data = FreshData
    /\ stack = <<>>
    /\ ip = 0
    /\ acc = Wide(0)
    /\ pc = "start"
    /\ ret = None
    /\ exc = None
    /\ IdleAsm
    /\ IdleCodec

\* lines 50-53: split the bytecode, open the log
Start ==
    /\ pc = "start"
    /\ instructions' = Chunks(bytecode)
    /\ log_messages' = << [kind |-> "info", count |-> Len(Chunks(bytecode))] >>
    /\ pc' = "loop"
    /\ UNCHANGED <<bytecode, data, stack, ip, acc, ret, exc>>
    /\ UNCHANGED <<asmVars, codecVars>>

\* the undecodable instruction logged and skipped: continue instead of break
DecodeFail_continue ==
    /\ Fetching
    /\ ~Decoded.ok
    /\ log_messages' = Append(log_messages, ErrorEntry(Decoded.what))
    /\ ip' = ip + 1
    /\ UNCHANGED <<bytecode, instructions, data, stack, acc, pc, ret, exc>>
    /\ UNCHANGED <<asmVars, codecVars>>

\* lines 59-63: decode_instruction raises, the error is logged, break
DecodeFail ==
    /\ Fetching
    /\ ~Decoded.ok
    /\ log_messages' = Append(log_messages, ErrorEntry(Decoded.what))
    /\ pc' = "break"
    /\ UNCHANGED <<bytecode, instructions, data, stack, ip, acc, ret, exc>>
    /\ UNCHANGED <<asmVars, codecVars>>

\* lines 59-93: one iteration that decodes and executes an instruction
Execute ==
    /\ Fetching
    /\ Decoded.ok
    /\ LET dec == Decoded
           eff == Dispatch(dec.cmd, dec.operand, data, acc)
       IN  /\ eff.ok
           /\ IF eff.halt
              THEN /\ log_messages' =
                        Append(Append(log_messages, TraceEntry(dec)), ErrorEntry("command"))
                   /\ pc' = "break"
                   /\ UNCHANGED <<data, acc, ip>>
              ELSE /\ log_messages' = Append(log_messages, TraceEntry(dec))
                   /\ data' = eff.data
                   /\ acc' = eff.acc
                   /\ ip' = NewIp(ip)
                   /\ pc' = "loop"
    /\ UNCHANGED <<bytecode, instructions, stack, ret, exc>>
    /\ UNCHANGED <<asmVars, codecVars>>

\* the program counter stored before the dispatch: memory.ip = new_ip moved
\* above the if/elif chain
ExecuteRaise_ip_first ==
    /\ Fetching
    /\ Decoded.ok
    /\ LET dec == Decoded
           eff == Dispatch(dec.cmd, dec.operand, data, acc)
       IN  /\ ~eff.ok
           /\ log_messages' = Append(log_messages, TraceEntry(dec))
           /\ exc' = eff
           /\ pc' = "raised"
    /\ ip' = NewIp(ip)
    /\ UNCHANGED <<bytecode, instructions, data, stack, acc, ret>>
    /\ UNCHANGED <<asmVars, codecVars>>

\* lines 76-87: read_data / write_data raises IndexError; no handler encloses
\* the call, so the exception leaves run_program
ExecuteRaise ==
    /\ Fetching
    /\ Decoded.ok
    /\ LET dec == Decoded
           eff == Dispatch(dec.cmd, dec.operand, data, acc)
       IN  /\ ~eff.ok
           /\ log_messages' = Append(log_messages, TraceEntry(dec))
           /\ exc' = eff
           /\ pc' = "raised"
    /\ UNCHANGED <<bytecode, instructions, data, stack, ip, acc, ret>>
    /\ UNCHANGED <<asmVars, codecVars>>

\* lines 95-99: the loop is over (condition false or break): summary, return
Finish ==
    /\ \/ pc = "loop" /\ ip >= Len(instructions)
       \/ pc = "break"
    /\ log_messages' = log_messages \o SummaryEntries
    /\ ret' = [log |-> log_messages']
    /\ pc' = "done"
    /\ UNCHANGED <<bytecode, instructions, data, stack, ip, acc, exc>>
    /\ UNCHANGED <<asmVars, codecVars>>

Next == Start \/ DecodeFail \/ Execute \/ ExecuteRaise \/ Finish

Spec == Init /\ [][Next]_vars

(***************************************************************************)
(* The codec on its own: pack_instruction(a, b), then decode_instruction   *)
(* applied to the bytes it returned.                                       *)
(***************************************************************************)
\* opcode arguments: the four assigned opcodes, unassigned ones and the edges
\* of the 7-bit range
OpcodeInputs == { -1, 0, 1, OP_READ, OP_LOAD_CONST, OP_LESS, OP_WRITE, 127, 128 }

\* operand arguments: the fixtures of test_asm_functions and the edges of the
\* 26-bit range
OperandInputs == { -1, 0, 1, 308, 381, 435, 989, 2 ^ BBits - 1, 2 ^ BBits }

InitCodec ==
    /\ a \in OpcodeInputs
    /\ b \in OperandInputs
    /\ packed = None
    /\ decoded = None
    /\ pc = "pack"
    /\ ret = None
    /\ exc = None
    /\ IdleRun
    /\ IdleAsm

\* pack_instruction(a, b) is called
Pack ==
    /\ pc = "pack"
    /\ packed' = pack_instruction(a, b)
    /\ IF packed'.ok
       THEN pc' = "decode" /\ exc' = exc
       ELSE pc' = "raised" /\ exc' = packed'
    /\ UNCHANGED <<a, b, decoded, ret>>
    /\ UNCHANGED <<runVars, asmVars>>

\* decode_instruction is called on the packed bytes
Decode ==
    /\ pc = "decode"
    /\ decoded' = decode_instruction(packed.bytes)
    /\ IF decoded'.ok
       THEN pc' = "done" /\ exc' = exc
       ELSE pc' = "raised" /\ exc' = decoded'
    /\ UNCHANGED <<a, b, packed, ret>>
    /\ UNCHANGED <<runVars, asmVars>>

NextCodec == Pack \/ Decode

SpecCodec == InitCodec /\ [][NextCodec]_vars

(***************************************************************************)
(* Strings of the assembler: sequences of one-character strings.           *)
(***************************************************************************)
Whitespace == { " ", "\n", "\t" }

RECURSIVE LStrip(_)
LStrip(s) == IF s # <<>> /\ Head(s) \in Whitespace THEN LStrip(Tail(s)) ELSE s

RECURSIVE RStrip(_)
RStrip(s) ==
    IF s # <<>> /\ s[Len(s)] \in Whitespace THEN RStrip(SubSeq(s, 1, Len(s) - 1)) ELSE s

\* s.strip()
Strip(s) == RStrip(LStrip(s))

\* c in s
Contains(s, c) == \E i \in 1 .. Len(s) : s[i] = c

\* s.find(c) for a c that occurs in s (1-based)
FirstIndex(s, c) == CHOOSE i \in 1 .. Len(s) : s[i] = c /\ \A j \in 1 .. i - 1 : s[j] # c

RECURSIVE Split(_, _)
\* s.split(sep) for a one-character separator
Split(s, sep) ==
    IF ~Contains(s, sep) THEN << s >>
    ELSE LET i == FirstIndex(s, sep)
         IN  << SubSeq(s, 1, i - 1) >> \o Split(SubSeq(s, i + 1, Len(s)), sep)

\* s.splitlines(): the pieces between line breaks, without a last empty piece
SplitLines(s) ==
    LET parts == Split(s, "\n")
    IN  IF parts[Len(parts)] = <<>> THEN SubSeq(parts, 1, Len(parts) - 1) ELSE parts

DigitValue ==
    ("0" :> 0) @@ ("1" :> 1) @@ ("2" :> 2) @@ ("3" :> 3) @@ ("4" :> 4) @@
    ("5" :> 5) @@ ("6" :> 6) @@ ("7" :> 7) @@ ("8" :> 8) @@ ("9" :> 9)

IsDigit(c) == c \in DOMAIN DigitValue

\* the digits part of an integer literal: digits, single underscores between
IsDigits(s) ==
    /\ s # <<>>
    /\ IsDigit(s[1])
    /\ IsDigit(s[Len(s)])
    /\ \A i \in 1 .. Len(s) : IsDigit(s[i]) \/ (s[i] = "_" /\ s[i + 1] # "_")

RECURSIVE DigitsValue(_, _)
DigitsValue(s, n) ==
    IF s = <<>> THEN n
    ELSE IF Head(s) = "_" THEN DigitsValue(Tail(s), n)
    ELSE DigitsValue(Tail(s), 10 * n + DigitValue[Head(s)])

\* int(s): base-10, optional sign, surrounding whitespace ignored
ParseInt(s) ==
    LET t == Strip(s)
        signed == t # <<>> /\ Head(t) \in { "+", "-" }
        digits == IF signed THEN Tail(t) ELSE t
    IN  IF ~IsDigits(digits) THEN Raise("ValueError", "int")
        ELSE [ok |-> TRUE,
              value |-> IF signed /\ Head(t) = "-"
                        THEN 0 - DigitsValue(digits, 0)
                        ELSE DigitsValue(digits, 0)]

(***************************************************************************)
(* uvm_asm.asm                                                             *)
(***************************************************************************)
LOAD_CONST == << "l", "o", "a", "d", "_", "c", "o", "n", "s", "t" >>
READ_VALUE == << "r", "e", "a", "d", "_", "v", "a", "l", "u", "e" >>
WRITE_VALUE == << "w", "r", "i", "t", "e", "_", "v", "a", "l", "u", "e" >>
LESS == << "l", "e", "s", "s" >>

asm_load_const(const) == pack_instruction(OP_LOAD_CONST, const)
asm_read_value(address) == pack_instruction(OP_READ, address)
asm_write_value(address) == pack_instruction(OP_WRITE, address)
\* the opcode of the neighbouring function: pack_instruction(OP_READ, address)
asm_less_as_read(address) == pack_instruction(OP_READ, address)

asm_less(address) == pack_instruction(OP_LESS, address)

\* the chain without its else branch: an unknown command emits nothing
AsmEntry_noelse(op, arg) ==
    CASE op = LOAD_CONST -> asm_load_const(arg)
      [] op = READ_VALUE -> asm_read_value(arg)
      [] op = WRITE_VALUE -> asm_write_value(arg)
      [] op = LESS -> asm_less(arg)
      [] OTHER -> [ok |-> TRUE, bytes |-> <<>>]

\* the if/elif chain of asm on one IR entry
AsmEntry(op, arg) ==
    CASE op = LOAD_CONST -> asm_load_const(arg)
      [] op = READ_VALUE -> asm_read_value(arg)
      [] op = WRITE_VALUE -> asm_write_value(arg)
      [] op = LESS -> asm_less(arg)
      [] OTHER -> Raise("ValueError", "command")

RECURSIVE AsmLoop(_, _)
\* the for loop of asm: bytes is the bytecode accumulated so far
AsmLoop(ir, bytes) ==
    IF ir = <<>> THEN [ok |-> TRUE, bytes |-> bytes]
    ELSE LET r == AsmEntry(Head(ir)[1], Head(ir)[2])
         IN  IF r.ok THEN AsmLoop(Tail(ir), bytes \o r.bytes) ELSE r

asm(ir) == AsmLoop(ir, <<>>)

(***************************************************************************)
(* uvm_asm.full_asm                                                        *)
(***************************************************************************)
\* step 1 of the loop body: drop the trailing comment
StripComment(line) ==
    LET l == Strip(line)
    IN  IF Contains(l, "#") THEN Strip(Split(l, "#")[1]) ELSE l

\* parts[1] of the source, when a non-empty one exists
HasArg(parts) == Len(parts) > 1 /\ Strip(parts[2]) # <<>>

\* step 3 of the loop body on a non-empty line: the IR entry, or the exception
\* the mnemonic looked up while the line is parsed: the check of asm's else
\* branch made before the argument is looked at
ParseLine_checks_mnemonic(line) ==
    LET parts == Split(line, ";")
        cmd == Strip(parts[1])
    IN  IF cmd \notin { LOAD_CONST, READ_VALUE, WRITE_VALUE, LESS }
        THEN Raise("ValueError", "command")
        ELSE IF HasArg(parts)
             THEN LET n == ParseInt(Strip(parts[2]))
                  IN  IF n.ok THEN [ok |-> TRUE, entry |-> << cmd, n.value >>] ELSE n
             ELSE Raise("ValueError", "argument")

ParseLine(line) ==
    LET parts == Split(line, ";")
        cmd == Strip(parts[1])
    IN  IF HasArg(parts)
        THEN LET n == ParseInt(Strip(parts[2]))
             IN  IF n.ok THEN [ok |-> TRUE, entry |-> << cmd, n.value >>] ELSE n
        ELSE Raise("ValueError", "argument")

Sp == << " " >>
Semi == << ";" >>

\* the source lines texts are made of
SourceLines ==
    { LOAD_CONST \o Semi \o Sp \o << "1" >>,
      LESS \o Semi \o << "0" >>,
      Sp \o WRITE_VALUE \o Semi \o Sp \o << "2", " ", "#", " ", "c", ";", "d" >>,
      READ_VALUE \o Sp \o Semi \o << "1", "_", "0", " " >>,
      << "n", "o", "p" >> \o Semi \o Sp \o << "1" >>,
      << "n", "o", "p" >>,
      LOAD_CONST,
      LOAD_CONST \o Semi \o Sp,
      LOAD_CONST \o Semi \o Sp \o << "x" >>,
      LOAD_CONST \o Semi \o Sp \o << "-", "1" >>,
      LOAD_CONST \o Semi \o Sp \o << "6", "7", "1", "0", "8", "8", "6", "4" >>,
      LOAD_CONST \o Semi \o Sp \o << "6", "7", "1", "0", "8", "8", "6", "3" >>,
      LOAD_CONST \o Semi \o Sp \o << "1" >> \o Semi \o Sp \o << "2" >>,
      <<>>,
      << "#", " ", "c" >> }

RECURSIVE JoinLines(_)
JoinLines(ls) ==
    IF ls = <<>> THEN <<>>
    ELSE IF Len(ls) = 1 THEN ls[1]
    ELSE Head(ls) \o << "\n" >> \o JoinLines(Tail(ls))

Texts ==
    { JoinLines(ls) : ls \in UNION { [1 .. n -> SourceLines] : n \in 0 .. MaxLines } }

InitAsm ==
    /\ text \in Texts
    /\ lines = <<>>
    /\ lineno = 0
    /\ IR = <<>>
    /\ pc = "asm_start"
    /\ ret = None
    /\ exc = None
    /\ IdleRun
    /\ IdleCodec

\* lines 118-121: text = text.strip(); IR = []; text.splitlines()
AsmStart ==
    /\ pc = "asm_start"
    /\ lines' = SplitLines(Strip(text))
    /\ pc' = "parse"
    /\ UNCHANGED <<text, lineno, IR, ret, exc>>
    /\ UNCHANGED <<runVars, codecVars>>

\* lines 121-140: one iteration of the for loop over the lines
AsmLine ==
    /\ pc = "parse"
    /\ lineno < Len(lines)
    /\ LET line == StripComment(lines[lineno + 1])
       IN  IF line = <<>>
           THEN UNCHANGED <<IR, pc, exc>>
           ELSE LET r == ParseLine(line)
                IN  IF r.ok
                    THEN IR' = Append(IR, r.entry) /\ UNCHANGED <<pc, exc>>
                    ELSE exc' = r /\ pc' = "raised" /\ UNCHANGED IR
    /\ lineno' = lineno + 1
    /\ UNCHANGED <<text, lines, ret>>
    /\ UNCHANGED <<runVars, codecVars>>

\* lines 143-144: bytecode = asm(IR); return bytecode, IR
AsmLower ==
    /\ pc = "parse"
    /\ lineno = Len(lines)
    /\ LET r == asm(IR)
       IN  IF r.ok
           THEN ret' = [bytecode |-> r.bytes, IR |-> IR] /\ pc' = "done" /\ exc' = exc
           ELSE exc' = r /\ pc' = "raised" /\ ret' = ret
    /\ UNCHANGED <<text, lines, lineno, IR>>
    /\ UNCHANGED <<runVars, codecVars>>

NextAsm == AsmStart \/ AsmLine \/ AsmLower

SpecAsm == InitAsm /\ [][NextAsm]_vars

(***************************************************************************)
(* run_program called again with the same bytecode on the memory object    *)
(* the previous call has returned from.                                    *)
(***************************************************************************)
\* the entry of run_program with the machine reset: memory.ip = 0 and
\* memory.acc = 0 before the loop
Rerun_resets ==
    /\ pc = "done"
    /\ "log" \in DOMAIN ret
    /\ instructions' = Chunks(bytecode)
    /\ log_messages' = << [kind |-> "info", count |-> Len(Chunks(bytecode))] >>
    /\ ip' = 0
    /\ acc' = Wide(0)
    /\ pc' = "loop"
    /\ ret' = None
    /\ UNCHANGED <<bytecode, data, stack, exc>>
    /\ UNCHANGED <<asmVars, codecVars>>

\* lines 50-53 of the second call: instructions and log_messages are new
\* locals, memory is the object as the first call left it
Rerun ==
    /\ pc = "done"
    /\ "log" \in DOMAIN ret
    /\ instructions' = Chunks(bytecode)
    /\ log_messages' = << [kind |-> "info", count |-> Len(Chunks(bytecode))] >>
    /\ pc' = "loop"
    /\ ret' = None
    /\ UNCHANGED <<bytecode, data, stack, ip, acc, exc>>
    /\ UNCHANGED <<asmVars, codecVars>>

NextRerun == Next \/ Rerun

SpecRerun == Init /\ [][NextRerun]_vars

(***************************************************************************)
(* The whole tool: core_runner.run_uvm_source assembles a source text and  *)
(* runs the bytecode on a fresh memory; interpreter.main runs the bytes of *)
(* a file, whatever they are.                                              *)
(***************************************************************************)
\* 5-byte words no assembler run produces: load_const 2^33 - 1,
\* load_const 2^26, and a word of ones (opcode 127)
RawWords ==
    { << 142, 255, 255, 255, 255 >>, << 14, 0, 0, 0, 2 >>,
      << 255, 255, 255, 255, 255 >> }

FileWords ==
    RawWords \cup
    { pack_instruction(w[1], w[2]).bytes :
        w \in { <<OP_READ, 0>>, <<OP_WRITE, 0>>, <<OP_LESS, 0>> } }

\* the files handed to interpreter.main: 5-byte-aligned, otherwise arbitrary
FileBytecodes ==
    { Flatten(p) : p \in UNION { [1 .. n -> FileWords] : n \in 0 .. MaxInstr } }

\* interpreter.main: bytecode = f.read(); memory = UVMMemory()
InitFile ==
    /\ bytecode \in FileBytecodes
    /\ instructions = <<>>
    /\ log_messages = <<>>
    /\ data = FreshData
    /\ stack = <<>>
    /\ ip = 0
    /\ acc = Wide(0)
    /\ pc = "start"
    /\ ret = None
    /\ exc = None
    /\ IdleAsm
    /\ IdleCodec

InitSystem == InitAsm \/ InitFile

\* full_asm has returned (bytecode, IR)
Assembled == pc = "done" /\ "IR" \in DOMAIN ret

\* core_runner lines 30-48: a non-empty source was assembled; memory =
\* UVMMemory(); run_program(bytecode, memory) is entered
RunAssembled ==
    /\ Assembled
    /\ Strip(text) # <<>>
    /\ bytecode' = ret.bytecode
    /\ data' = FreshData
    /\ stack' = <<>>
    /\ ip' = 0
    /\ acc' = Wide(0)
    /\ pc' = "start"
    /\ ret' = None
    /\ UNCHANGED <<instructions, log_messages, exc>>
    /\ UNCHANGED <<asmVars, codecVars>>

NextSystem == NextAsm \/ RunAssembled \/ Next

SpecSystem == InitSystem /\ [][NextSystem]_vars

\* run_program is running or has ended
InRun ==
    \/ pc \in { "start", "loop", "break" }
    \/ pc = "done" /\ "log" \in DOMAIN ret
    \/ pc = "raised" /\ exc.type = "IndexError"

\* the bytecode being run came out of full_asm
RunOfAssembled == InRun /\ lines # <<>>

(***************************************************************************)
(* Helpers of the properties.                                              *)
(***************************************************************************)
\* the entries of a log that satisfy a test
ErrorEntries(log) == { i \in 1 .. Len(log) : log[i].kind = "error" }
TraceEntries(log) == { i \in 1 .. Len(log) : log[i].kind = "trace" }

\* quotient of the bytecode length by the instruction size
WholeInstructions == Len(bytecode) \div InstrSize

\* the low 7 bits of the first byte of a 5-byte word
LowBits(word) == word[1] % 128

RECURSIVE RunPrefix(_, _)
\* accumulator and memory after instructions 0..k-1 ran on a fresh memory
RunPrefix(instrs, k) ==
    IF k = 0 THEN [data |-> FreshData, acc |-> Wide(0)]
    ELSE LET s == RunPrefix(instrs, k - 1)
             dec == decode_instruction(instrs[k])
             eff == IF dec.ok THEN Dispatch(dec.cmd, dec.operand, s.data, s.acc) ELSE dec
         IN  IF eff.ok THEN [data |-> eff.data, acc |-> eff.acc] ELSE s

\* the loop is at an instruction that accesses a cell outside the memory
AtOutOfRange ==
    /\ pc \in { "loop", "break", "raised", "done" }
    /\ ip < Len(instructions)
    /\ \E op \in { OP_READ, OP_WRITE, OP_LESS } : \E addr \in DataSize .. DataSize + 1 :
          instructions[ip + 1] = pack_instruction(op, addr).bytes

(***************************************************************************)
(* C1: when run_program executes read_value, write_value or less with an   *)
(* operand >= the memory size, it halts at that instruction with an error  *)
(* entry in the log and returns the log; no exception leaves run_program.  *)
(***************************************************************************)
C1_BoundsErrorHaltsAndReturns ==
    (AtOutOfRange /\ pc \in { "raised", "done" }) =>
        /\ pc = "done"
        /\ exc = None
        /\ \E i \in ErrorEntries(ret.log) : ret.log[i].ip = ip

(***************************************************************************)
(* C2 (as stated): for a bytecode whose length is not a multiple of 5 the  *)
(* instruction count is len // 5, the trailing fragment is never fetched   *)
(* or decoded and no error entry is produced because of it.                *)
(***************************************************************************)
C2_FragmentNeverFetched ==
    (Len(bytecode) % InstrSize # 0 /\ pc # "start") =>
        /\ Len(instructions) = WholeInstructions
        /\ \A i \in ErrorEntries(log_messages) : log_messages[i].what # "length"

(***************************************************************************)
(* C2 (amended): for a bytecode whose length is not a multiple of 5,       *)
(* run_program splits it into len // 5 + 1 chunks, the last one being the  *)
(* trailing fragment; the program counter never passes len // 5, and when  *)
(* the loop reaches the fragment, decode_instruction rejects it for its    *)
(* length: an error entry for address len // 5 closes the trace, and       *)
(* run_program returns with the program counter == len // 5.  No other     *)
(* address gets a length error.                                            *)
(***************************************************************************)
C2_FragmentIsDecodeError ==
    (Len(bytecode) % InstrSize # 0 /\ pc # "start") =>
        /\ Len(instructions) = WholeInstructions + 1
        /\ ip <= WholeInstructions
        /\ \A i \in ErrorEntries(log_messages) :
              log_messages[i].what = "length" => log_messages[i].ip = WholeInstructions
        /\ (pc \in { "break", "done" } /\ ip = WholeInstructions) =>
              /\ log_messages[ip + 2] = [kind |-> "error", ip |-> ip, what |-> "length"]
              /\ Cardinality(TraceEntries(log_messages)) = ip
        /\ (pc = "done" /\ ip = WholeInstructions) => ret = [log |-> log_messages] /\ exc = None

C2_Witness ==
    /\ pc = "done"
    /\ Len(bytecode) % InstrSize # 0
    /\ WholeInstructions = 2
    /\ ip = 2
    /\ \E i \in ErrorEntries(ret.log) : ret.log[i].what = "length" /\ ret.log[i].ip = 2

(***************************************************************************)
(* C3 (as stated): for every opcode A in [0,128) and operand B in          *)
(* [0,2^26), decode_instruction(pack_instruction(A, B)) succeeds and       *)
(* returns B as the operand.                                               *)
(***************************************************************************)
C3_RoundTripEveryOpcode ==
    (pc \in { "done", "raised" } /\ a \in 0 .. 127 /\ b >= 0 /\ b < 2 ^ 26) =>
        /\ pc = "done"
        /\ decoded.ok
        /\ decoded.operand = Wide(b)

(***************************************************************************)
(* C3 (amended): for every opcode A in {14, 11, 94, 69} and operand B in   *)
(* [0,2^26), decode_instruction(pack_instruction(A, B)) succeeds and       *)
(* returns (opcode_name(A), B); for every other A in [0,128)               *)
(* pack_instruction succeeds and decode_instruction fails on the unknown   *)
(* opcode.                                                                 *)
(***************************************************************************)
C3_RoundTripAssignedOpcodes ==
    (pc \in { "done", "raised" } /\ a \in 0 .. 127 /\ b >= 0 /\ b < 2 ^ 26) =>
        IF a \in { 14, 11, 94, 69 }
        THEN /\ pc = "done"
             /\ decoded.ok
             /\ decoded.cmd =
                  (CASE a = 14 -> "load_const" [] a = 11 -> "read_value"
                     [] a = 94 -> "write_value" [] a = 69 -> "less")
             /\ decoded.operand = Wide(b)
        ELSE /\ pc = "raised"
             /\ packed.ok
             /\ exc = [ok |-> FALSE, type |-> "ValueError", what |-> "opcode"]

C3_Witness ==
    /\ pc = "done"
    /\ a = 69
    /\ b = 2 ^ 26 - 1
    /\ decoded = [ok |-> TRUE, cmd |-> "less", operand |-> Wide(67108863)]

(***************************************************************************)
(* C4: for every in-range (opcode, operand) pack_instruction returns 5     *)
(* bytes, byte i being bits 8i..8i+7 of opcode + operand * 2^7: the low 7  *)
(* bits of byte 0 are the opcode, its top bit is bit 0 of the operand, and *)
(* byte i >= 1 is (operand div 2^(8i-7)) mod 256; bits 33..39 are zero;    *)
(* the four fixtures of test_asm_functions give the asserted bytes.        *)
(***************************************************************************)
C4_LittleEndianLayout ==
    (pc # "pack" /\ a \in 0 .. 127 /\ b >= 0 /\ b < 2 ^ 26) =>
        /\ packed.ok
        /\ Len(packed.bytes) = 5
        /\ packed.bytes[1] = a + 128 * (b % 2)
        /\ \A i \in 1 .. 4 : packed.bytes[i + 1] = (b \div (2 ^ (8 * i - 7))) % 256
        /\ packed.bytes[5] < 2
        /\ (a = 14 /\ b = 381) => packed.bytes = << 142, 190, 0, 0, 0 >>
        /\ (a = 11 /\ b = 435) => packed.bytes = << 139, 217, 0, 0, 0 >>
        /\ (a = 94 /\ b = 308) => packed.bytes = << 94, 154, 0, 0, 0 >>
        /\ (a = 69 /\ b = 989) => packed.bytes = << 197, 238, 1, 0, 0 >>

C4_Witness ==
    /\ pc = "decode"
    /\ a = 69
    /\ b = 989
    /\ packed = [ok |-> TRUE, bytes |-> << 197, 238, 1, 0, 0 >>]

(***************************************************************************)
(* C5: pack_instruction fails exactly when the opcode is outside [0,128)   *)
(* or the operand is outside [0,2^26) (negative operands included), and    *)
(* then produces no bytes; for every in-range pair it succeeds.            *)
(***************************************************************************)
C5_PackFailsExactlyOutOfRange ==
    pc # "pack" =>
        IF a >= 0 /\ a <= 127 /\ b >= 0 /\ b <= 67108863
        THEN /\ packed.ok
             /\ Len(packed.bytes) = 5
             /\ pc = "raised" => exc = decoded
        ELSE /\ ~packed.ok
             /\ "bytes" \notin DOMAIN packed
             /\ pc = "raised"
             /\ exc = packed
             /\ exc.type = "ValueError"

C5_Witness ==
    /\ pc = "raised"
    /\ a = OP_LOAD_CONST
    /\ b = -1
    /\ ~packed.ok
    /\ decoded = None

(***************************************************************************)
(* C6: when the loop reaches, at index k, a 5-byte word whose low 7 bits   *)
(* are not one of {14, 11, 94, 69}, it halts there: an error entry for k   *)
(* is appended, the program counter stays at k, accumulator and memory are *)
(* those produced by instructions 0..k-1, no later instruction is traced,  *)
(* and run_program returns the log.                                        *)
(***************************************************************************)
C6_UnknownOpcodeHalts ==
    /\ [](pc \in { "loop", "break", "done", "raised" } =>
            /\ acc = RunPrefix(instructions, ip).acc
            /\ data = RunPrefix(instructions, ip).data)
    /\ [][(/\ Fetching
           /\ Len(instructions[ip + 1]) = 5
           /\ LowBits(instructions[ip + 1]) \notin { 14, 11, 94, 69 }) =>
              /\ pc' = "break"
              /\ ip' = ip
              /\ acc' = acc
              /\ data' = data
              /\ log_messages' =
                    Append(log_messages, [kind |-> "error", ip |-> ip, what |-> "opcode"])]_vars
    /\ [][pc = "break" =>
              /\ pc' = "done"
              /\ exc' = None
              /\ ret' = [log |-> log_messages']
              /\ SubSeq(log_messages', 1, Len(log_messages)) = log_messages
              /\ <<ip', acc', data'>> = <<ip, acc, data>>
              /\ \A i \in TraceEntries(log_messages') : log_messages'[i].ip < ip]_vars

C6_Witness ==
    /\ pc = "done"
    /\ ip = 2
    /\ ip < Len(instructions)
    /\ LowBits(instructions[ip + 1]) = 1
    /\ Narrow(acc) = 5
    /\ Narrow(data[0]) = 5
    /\ \E i \in ErrorEntries(ret.log) : ret.log[i] = [kind |-> "error", ip |-> 2, what |-> "opcode"]

(***************************************************************************)
(* C7: for an in-range address B, less(B) sets memory[B] to 1 if the old   *)
(* memory[B] is strictly less than the accumulator and to 0 otherwise, and *)
(* leaves the accumulator unchanged; load_const 5, write_value 0,          *)
(* load_const 3, less 0 on a fresh memory ends with memory[0] = 0,         *)
(* accumulator = 3 and program counter = 4.                                *)
(***************************************************************************)
C7_LessComparesCellWithAccumulator ==
    /\ [][\A B \in 0 .. DataSize - 1 :
            (Fetching /\ instructions[ip + 1] = pack_instruction(OP_LESS, B).bytes) =>
                /\ data' = [data EXCEPT ![B] =
                              IF Narrow(data[B]) < Narrow(acc) THEN Wide(1) ELSE Wide(0)]
                /\ acc' = acc
                /\ ip' = ip + 1]_vars
    /\ []((bytecode = ExampleProgram /\ pc \in { "done", "raised" }) =>
            /\ pc = "done"
            /\ Narrow(data[0]) = 0
            /\ Narrow(acc) = 3
            /\ ip = 4)

C7_Witness ==
    /\ bytecode = ExampleProgram
    /\ pc = "done"
    /\ Narrow(data[0]) = 0
    /\ Narrow(acc) = 3
    /\ ip = 4

(***************************************************************************)
(* C8: for every bytecode and fresh memory the loop terminates (every step *)
(* of run_program strictly decreases a non-negative count of the steps     *)
(* left); the program counter increases by exactly 1 at each successfully  *)
(* executed instruction and does not change otherwise; on normal           *)
(* termination it equals the instruction count; for the empty bytecode     *)
(* nothing is executed and program counter, accumulator and memory stay 0. *)
(***************************************************************************)
\* an upper bound on the steps run_program still takes
StepsLeft ==
    CASE pc = "start" -> Len(bytecode) + 3
      [] pc = "loop" -> (Len(instructions) - ip) + 1
      [] pc = "break" -> 1
      [] OTHER -> 0

C8_LoopTerminates ==
    /\ [](StepsLeft >= 0)
    /\ [][StepsLeft' < StepsLeft]_vars
    /\ [][IF /\ Fetching
             /\ Decoded.ok
             /\ Decoded.cmd \in { "read_value", "write_value", "less" } =>
                   Narrow(Decoded.operand) < DataSize
          THEN ip' = ip + 1
          ELSE ip' = ip]_vars
    /\ []((pc = "done" /\ ErrorEntries(ret.log) = {}) =>
            /\ Len(bytecode) % InstrSize = 0
            /\ ip = WholeInstructions
            /\ Cardinality(TraceEntries(ret.log)) = ip)
    /\ []((bytecode = <<>> /\ pc \in { "loop", "break", "raised", "done" }) =>
            /\ ip = 0
            /\ Narrow(acc) = 0
            /\ data = FreshData
            /\ TraceEntries(log_messages) = {}
            /\ pc # "raised")

C8_Witness ==
    /\ pc = "done"
    /\ ErrorEntries(ret.log) = {}
    /\ ip = MaxInstr
    /\ Len(bytecode) = MaxInstr * InstrSize

(***************************************************************************)
(* C9: assembly is all-or-nothing: full_asm either returns a bytecode and  *)
(* an IR that cover every non-blank, non-comment line, or fails and        *)
(* returns neither; a line with a missing or unparsable argument, an       *)
(* unknown mnemonic or an out-of-range operand makes the whole assembly    *)
(* fail whatever the lines before it are.                                  *)
(***************************************************************************)
\* the lines of the text that hold an instruction
CodeLines ==
    LET ls == SplitLines(Strip(text))
    IN  { i \in 1 .. Len(ls) : StripComment(ls[i]) # <<>> }

\* a line that cannot be assembled
LineFails(line) ==
    LET r == ParseLine(StripComment(line))
    IN  \/ ~r.ok
        \/ r.entry[1] \notin { LOAD_CONST, READ_VALUE, WRITE_VALUE, LESS }
        \/ r.entry[2] < 0
        \/ r.entry[2] > 67108863

C9_AssemblyAllOrNothing ==
    /\ pc = "raised" => (ret = None /\ exc # None)
    /\ ret # None =>
         /\ pc = "done"
         /\ exc = None
         /\ Len(ret.IR) = Cardinality(CodeLines)
         /\ Len(ret.bytecode) = InstrSize * Cardinality(CodeLines)
    /\ (pc \in { "done", "raised" } /\ \E i \in CodeLines : LineFails(lines[i])) =>
         (pc = "raised" /\ ret = None)

C9_Witness ==
    /\ pc = "raised"
    /\ ret = None
    /\ Len(IR) = 1
    /\ lineno = 2
    /\ ~LineFails(lines[1])
    /\ LineFails(lines[2])

(***************************************************************************)
(* C10: a line that contains a second ';' (such as 'load_const; 1; 2') has *)
(* an argument substring that is not an integer, so assembly fails with a  *)
(* syntax error instead of producing an IR entry for it.                   *)
(***************************************************************************)
Count(s, c) == Cardinality({ i \in 1 .. Len(s) : s[i] = c })

C10_SecondSemicolonIsSyntaxError ==
    \A i \in 1 .. lineno :
        Count(StripComment(lines[i]), ";") >= 2 =>
            /\ pc = "raised"
            /\ exc.what \in { "int", "argument" }
            /\ Len(IR) < i

(***************************************************************************)
(* C11: when a source assembles, the IR has one entry per non-empty line   *)
(* (after comment stripping) in line order, the bytecode is exactly        *)
(* 5 * len(IR) bytes, and its i-th 5-byte window decodes to IR[i]; so a    *)
(* run of assembler-produced bytecode never hits a decode error.           *)
(***************************************************************************)
\* the mnemonic strings of the decoder, as the assembler spells them
Spelling ==
    ("load_const" :> LOAD_CONST) @@ ("read_value" :> READ_VALUE) @@
    ("write_value" :> WRITE_VALUE) @@ ("less" :> LESS)

\* the instruction lines of the text, comments stripped, in order
CodeLineSeq ==
    SelectSeq([i \in 1 .. Len(lines) |-> StripComment(lines[i])],
              LAMBDA l : l # <<>>)

\* the i-th 5-byte window of a byte sequence
Window(bytes, i) == SubSeq(bytes, InstrSize * (i - 1) + 1, InstrSize * i)

C11_BytecodeDecodesToIR ==
    /\ Assembled =>
         /\ Len(ret.IR) = Len(CodeLineSeq)
         /\ Len(ret.bytecode) = 5 * Len(ret.IR)
         /\ \A i \in 1 .. Len(ret.IR) :
              LET dec == decode_instruction(Window(ret.bytecode, i))
              IN  /\ ret.IR[i] = ParseLine(CodeLineSeq[i]).entry
                  /\ dec.ok
                  /\ Spelling[dec.cmd] = ret.IR[i][1]
                  /\ dec.operand = Wide(ret.IR[i][2])
    /\ RunOfAssembled =>
         /\ Fetching => Decoded.ok
         /\ \A i \in ErrorEntries(log_messages) :
              log_messages[i].what \notin { "opcode", "length" }

C11_Witness ==
    /\ RunOfAssembled
    /\ pc = "done"
    /\ Len(IR) = 2
    /\ IR[1][1] = LESS
    /\ IR[2] = << LOAD_CONST, 67108863 >>
    /\ ip = 2
    /\ acc = Wide(67108863)

(***************************************************************************)
(* C12: in every reachable state of an execution the data memory has       *)
(* exactly its initial number of cells, and only cells with index in       *)
(* 0 .. size-1 are read or written: a cell changes only when the current   *)
(* instruction addresses exactly that cell, the accumulator takes a cell's *)
(* value only from the cell the operand names, and an operand outside the  *)
(* range is neither wrapped around to a valid cell nor grows the memory.   *)
(***************************************************************************)
C12_MemoryKeepsItsSizeAndNeverWraps ==
    /\ [](DOMAIN data = 0 .. DataSize - 1)
    /\ [][\A i \in 0 .. DataSize - 1 :
            data'[i] # data[i] =>
                /\ Fetching
                /\ Decoded.ok
                /\ Decoded.cmd \in { "write_value", "less" }
                /\ Decoded.operand = Wide(i)]_vars
    /\ [][(Fetching /\ Decoded.ok /\ Decoded.cmd = "read_value" /\ pc' = "loop") =>
                /\ Narrow(Decoded.operand) \in DOMAIN data
                /\ acc' = data[Narrow(Decoded.operand)]]_vars
    /\ [][(/\ Fetching
           /\ Decoded.ok
           /\ Decoded.cmd \in { "read_value", "write_value", "less" }
           /\ Narrow(Decoded.operand) \notin 0 .. DataSize - 1) =>
                /\ data' = data
                /\ pc' = "raised"]_vars

C12_Witness ==
    /\ pc = "raised"
    /\ Decoded.cmd = "write_value"
    /\ Decoded.operand = Wide(DataSize)
    /\ Narrow(acc) = 5
    /\ Narrow(data[0]) = 5
    /\ DOMAIN data = 0 .. DataSize - 1

(***************************************************************************)
(* C13: frame conditions of the instructions: load_const(B) and            *)
(* read_value(B) change only the accumulator and leave every memory cell   *)
(* unchanged; write_value(B) and less(B) change at most memory[B] and      *)
(* leave the accumulator and every other cell unchanged; no instruction    *)
(* pushes to or pops from the stack, which is empty throughout.            *)
(***************************************************************************)
C13_FrameConditions ==
    /\ [](stack = <<>>)
    /\ [][(Fetching /\ Decoded.ok /\ Decoded.cmd \in { "load_const", "read_value" }) =>
                /\ data' = data
                /\ stack' = stack]_vars
    /\ [][(Fetching /\ Decoded.ok /\ Decoded.cmd \in { "write_value", "less" }) =>
                /\ acc' = acc
                /\ stack' = stack
                /\ \A i \in DOMAIN data :
                      Wide(i) # Decoded.operand => data'[i] = data[i]]_vars

C13_Witness ==
    /\ pc = "loop"
    /\ ip = 3
    /\ instructions[2] = pack_instruction(OP_WRITE, 0).bytes
    /\ instructions[3] = pack_instruction(OP_READ, 0).bytes
    /\ Narrow(acc) = 5
    /\ Narrow(data[0]) = 5
    /\ \A i \in 1 .. DataSize - 1 : Narrow(data[i]) = 0
    /\ stack = <<>>

(***************************************************************************)
(* C14: the execution log is append-only and ordered: for every            *)
(* successfully decoded instruction at index k exactly one trace entry is  *)
(* appended, recording address k, the decoded mnemonic and operand and the *)
(* accumulator as it was before instruction k executed (the value left by  *)
(* instructions 0..k-1); no other step appends a trace entry, and trace    *)
(* entries appear in strictly increasing address order.                    *)
(***************************************************************************)
C14_LogIsAppendOnlyTrace ==
    /\ [][/\ Len(log_messages') >= Len(log_messages)
          /\ SubSeq(log_messages', 1, Len(log_messages)) = log_messages]_vars
    /\ [][IF Fetching /\ Decoded.ok
          THEN /\ Len(log_messages') > Len(log_messages)
               /\ log_messages'[Len(log_messages) + 1] =
                     [kind |-> "trace", ip |-> ip, cmd |-> Decoded.cmd,
                      operand |-> Decoded.operand, acc |-> acc]
               /\ TraceEntries(log_messages') =
                     TraceEntries(log_messages) \cup { Len(log_messages) + 1 }
          ELSE TraceEntries(log_messages') = TraceEntries(log_messages)]_vars
    /\ [](\A i \in TraceEntries(log_messages) :
            /\ log_messages[i].acc = RunPrefix(instructions, log_messages[i].ip).acc
            /\ \A j \in TraceEntries(log_messages) :
                  i < j => log_messages[i].ip < log_messages[j].ip)

C14_Witness ==
    /\ pc = "done"
    /\ Len(instructions) = 3
    /\ Cardinality(TraceEntries(ret.log)) = 3
    /\ ret.log[2] = [kind |-> "trace", ip |-> 0, cmd |-> "load_const",
                     operand |-> Wide(5), acc |-> Wide(0)]
    /\ ret.log[3] = [kind |-> "trace", ip |-> 1, cmd |-> "write_value",
                     operand |-> Wide(0), acc |-> Wide(5)]
    /\ ret.log[4].ip = 2
    /\ ret.log[4].acc = Wide(5)

(***************************************************************************)
(* C15: lowering to bytecode starts only after every line has been parsed: *)
(* an unknown mnemonic or an out-of-range operand is reported only if      *)
(* every line of the source has a present and parsable argument; if some   *)
(* line, earlier or later, has a missing or unparsable argument, the       *)
(* assembly fails with the syntax error of the first such line; a line     *)
(* with an unknown mnemonic and no argument fails as a syntax error.       *)
(***************************************************************************)
\* the argument of an instruction line is missing, or is not an integer
ArgMissing(line) ==
    LET parts == Split(StripComment(line), ";")
    IN  Len(parts) <= 1 \/ Strip(parts[2]) = <<>>

ArgUnparsable(line) ==
    /\ ~ArgMissing(line)
    /\ ~ParseInt(Strip(Split(StripComment(line), ";")[2])).ok

\* the instruction lines with a syntax error
SyntaxFailures == { i \in CodeLines : ArgMissing(lines[i]) \/ ArgUnparsable(lines[i]) }

C15_SyntaxErrorsBeforeLowering ==
    /\ (pc \in { "done", "raised" } /\ SyntaxFailures # {}) => pc = "raised"
    /\ pc = "raised" =>
         IF SyntaxFailures # {}
         THEN LET k == CHOOSE i \in SyntaxFailures : \A j \in SyntaxFailures : i <= j
              IN  /\ lineno = k
                  /\ exc.type = "ValueError"
                  /\ exc.what = (IF ArgMissing(lines[k]) THEN "argument" ELSE "int")
                  /\ Len(IR) = Cardinality({ i \in CodeLines : i < k })
         ELSE /\ lineno = Len(lines)
              /\ exc.type = "ValueError"
              /\ exc.what \in { "command", "field B" }
              /\ Len(IR) = Cardinality(CodeLines)
              /\ exc = asm(IR)

C15_Witness ==
    /\ pc = "raised"
    /\ Len(lines) = 2
    /\ lineno = 2
    /\ IR = << << << "n", "o", "p" >>, 1 >> >>
    /\ StripComment(lines[2]) = << "n", "o", "p" >>
    /\ exc.what = "argument"

(***************************************************************************)
(* C16: a failing instruction is atomic: when read_value(B), write_value(B)*)
(* or less(B) is executed with B outside 0 .. size-1, the program counter, *)
(* the accumulator and every memory cell keep the values they had before   *)
(* that instruction (for less the failure is that of the read, before any  *)
(* write), so the program counter still indexes the failing instruction.   *)
(***************************************************************************)
\* the instruction at the program counter addresses a cell outside the memory
FailingAccess ==
    /\ ip < Len(instructions)
    /\ Decoded.ok
    /\ Decoded.cmd \in { "read_value", "write_value", "less" }
    /\ ~(WideLeq(Wide(0), Decoded.operand) /\ WideLess(Decoded.operand, Wide(DataSize)))

C16_FailingInstructionIsAtomic ==
    /\ [][(pc = "loop" /\ FailingAccess) =>
              /\ <<ip', acc', data', stack'>> = <<ip, acc, data, stack>>
              /\ exc'.type = "IndexError"
              /\ exc'.what = (IF Decoded.cmd = "write_value" THEN "write" ELSE "read")]_vars
    /\ [](pc = "raised" =>
              /\ FailingAccess
              /\ acc = RunPrefix(instructions, ip).acc
              /\ data = RunPrefix(instructions, ip).data)

C16_Witness ==
    /\ pc = "raised"
    /\ ip = 2
    /\ Decoded.cmd = "less"
    /\ Decoded.operand = Wide(DataSize)
    /\ exc = [ok |-> FALSE, type |-> "IndexError", what |-> "read"]
    /\ Narrow(acc) = 5
    /\ Narrow(data[0]) = 5

(***************************************************************************)
(* C17: value ranges: when bytecode produced by full_asm is executed on a  *)
(* fresh memory, the accumulator and every memory cell are integers in     *)
(* [0, 2^26) in every reachable state; for arbitrary 5-byte-aligned        *)
(* bytecode the decoded operand, and with it the accumulator and the       *)
(* cells, stay in [0, 2^33): they can reach 2^33 - 1 and are never         *)
(* negative.                                                               *)
(***************************************************************************)
\* 0 <= x < 2^bits for a two-limb integer x, bits >= 16
InRange(x, bits) ==
    /\ x[1] >= 0
    /\ x[1] < 2 ^ (bits - 16)
    /\ x[2] >= 0
    /\ x[2] < Limb

C17_ValueRanges ==
    /\ RunOfAssembled =>
         /\ InRange(acc, 26)
         /\ \A i \in DOMAIN data : InRange(data[i], 26)
    /\ InRun =>
         /\ InRange(acc, 33)
         /\ \A i \in DOMAIN data : InRange(data[i], 33)
         /\ (Fetching /\ Decoded.ok) => InRange(Decoded.operand, 33)

\* a run of a hand-made file that reaches 2^33 - 1 = 131071 * 2^16 + 65535
C17_Witness ==
    /\ InRun
    /\ ~RunOfAssembled
    /\ pc = "done"
    /\ Len(instructions) = 2
    /\ instructions[1] = << 142, 255, 255, 255, 255 >>
    /\ acc = << 131071, 65535 >>
    /\ data[0] = << 131071, 65535 >>

(***************************************************************************)
(* C18: run_program does not reset the machine state it is given: a call   *)
(* starts at the program counter and accumulator stored in the memory      *)
(* object, so a second call with the same bytecode on the same memory      *)
(* after a normal termination executes zero instructions (its log holds no *)
(* trace and no error entry) and leaves program counter, accumulator and   *)
(* memory unchanged; it does not restart from instruction 0.               *)
(***************************************************************************)
\* the program counter has reached the instruction count
NormalEnd == ip = Len(Chunks(bytecode))

\* run_program is entered again
Reentered == pc = "done" /\ pc' = "loop"

C18_RerunExecutesNothing ==
    /\ [][Reentered =>
              /\ <<ip', acc', data', stack'>> = <<ip, acc, data, stack>>
              /\ instructions' = instructions
              /\ TraceEntries(log_messages') = {}]_vars
    /\ [][NormalEnd =>
              /\ <<ip', acc', data', stack'>> = <<ip, acc, data, stack>>
              /\ TraceEntries(log_messages') \subseteq TraceEntries(log_messages)
              /\ ErrorEntries(log_messages') = {}
              /\ pc' \in { "loop", "done" }]_vars
    /\ []((NormalEnd /\ pc = "done" /\ TraceEntries(ret.log) = {}) =>
              /\ exc = None
              /\ ret.log = << [kind |-> "info", count |-> ip],
                              [kind |-> "end", ip |-> ip],
                              [kind |-> "final_acc", acc |-> acc],
                              [kind |-> "memory", data |-> data] >>)

\* the second call has returned after a three-instruction program
C18_Witness ==
    /\ pc = "done"
    /\ NormalEnd
    /\ ip = 3
    /\ TraceEntries(ret.log) = {}
    /\ Len(ret.log) = 4
    /\ Narrow(acc) = 5
    /\ data[0] = Wide(1)

====
